---- MODULE Spec2Model ----
(***************************************************************************)
(* Scheduling and execution coordination of seldom-platform (backendnew). *)
(*                                                                         *)
(* The store holds the task rows, the case-result rows and the task        *)
(* reports.  The scheduler keeps a cron registry; a due entry runs         *)
(* executeScheduledTask, which starts ExecuteTask on its own goroutine.    *)
(* The HTTP handlers RunTask and DeleteTask and the service call StopTask  *)
(* act on the same store concurrently.  ExecuteTask is split at its store  *)
(* operations, which is where other goroutines can interleave.             *)
(*                                                                         *)
(* Store operations fail where the code has a branch for the failure:      *)
(* a lookup fails when the row is absent, a Find/Create/Save/Delete whose  *)
(* error the code tests may fail for a store error.  A Save whose error    *)
(* the code discards is modelled as taking effect.                         *)
(*                                                                         *)
(* Spec is the running service over a fixed store.  SpecBatch runs batches *)
(* started through RunTask over a store whose bindings of task 1 are drawn *)
(* from BindingLists.  SpecRegistry starts a new scheduler service over a  *)
(* store whose task rows are drawn from Rows and calls AddTask,            *)
(* RemoveTask and UpdateTask on it.  SpecValidate does the same over a     *)
(* task whose cron expression is drawn from CronTexts.  SpecStats calls    *)
(* GetTaskStatistics over a store whose task reports are drawn from        *)
(* ReportStores.                                                           *)
(***************************************************************************)
EXTENDS Integers, Sequences, FiniteSets, TLC

VARIABLES
    tasks,        \* app_task_testtask: task id -> row
    entries,      \* the cron registry: a sequence of registered jobs
    cronRunning,  \* whether the cron timer loop is started
    batches,      \* every ExecuteTask call dispatched so far, in dispatch order
    caseResults,  \* app_case_caseresult rows
    reports,      \* app_task_taskreport rows
    relevances,   \* app_task_taskcaserelevance: task id -> the bound case hashes
    stopCall,     \* the StopTask call in progress, if any
    phase,        \* "new" before the scheduler is started, "serving" once it is,
                  \* "exited" when main has ended on a failed start
    faults,       \* number of store operations that have failed so far
    lastCall,     \* the last call made to the scheduler service itself (not
                  \* through a handler): what was called, for which task, and
                  \* the statistics it returned, if any
    ret           \* what a service call (StopTask, AddTask, Start) returned in the
                  \* last step: "none" when no call returned, "nil" for no error,
                  \* else the error

vars == <<tasks, entries, cronRunning, batches, caseResults, reports, relevances,
          stopCall, phase, faults, lastCall, ret>>

(* ---------------------------- bounds ---------------------------------- *)

\* number of batches dispatched in one behaviour
MaxBatches == 2

\* number of store operations that fail in one behaviour
MaxFaults == 1

\* number of task rows the store starts with
NumTasks == 2

\* number of case bindings of a task whose bindings are drawn
MaxBindings == 3

\* number of jobs in the cron registry when jobs are added one by one
MaxEntries == 3

\* number of characters of a cron expression that is drawn
MaxCronLen == 13

\* the days are 0..MaxDay and the statistics are asked for on day MaxDay
MaxDay == 3

\* number of TaskReport rows of a store whose reports are drawn
MaxReports == 2

\* the longest time in seconds that a batch takes
MaxDuration == 1

TaskIds == 1..NumTasks

(* ------------------------- cron expressions --------------------------- *)

\* an expression is a sequence of one-character strings
Expr6 == <<"0", " ", "0", " ", "1", "2", " ", "*", " ", "*", " ", "*">>
Expr5 == <<"0", " ", "1", "2", " ", "*", " ", "*", " ", "*">>
Expr4 == <<"*", " ", "*", " ", "*", " ", "*">>
ExprEmpty == <<>>

RECURSIVE FieldsFrom(_, _, _)
\* strings.Fields: the maximal runs of non-blank characters of s
FieldsFrom(s, i, cur) ==
    IF i > Len(s)
    THEN IF cur = <<>> THEN <<>> ELSE <<cur>>
    ELSE IF s[i] = " "
         THEN IF cur = <<>> THEN FieldsFrom(s, i + 1, <<>>)
                            ELSE <<cur>> \o FieldsFrom(s, i + 1, <<>>)
         ELSE FieldsFrom(s, i + 1, Append(cur, s[i]))

Fields(s) == FieldsFrom(s, 1, <<>>)

\* IsValidCronExpression taking six fields only
IsValidCronExpressionSixOnly(cron) ==
    IF cron = <<>> THEN TRUE
    ELSE Len(Fields(cron)) = 6

IsValidCronExpression(cron) ==
    IF cron = <<>> THEN TRUE
    ELSE Len(Fields(cron)) = 6 \/ Len(Fields(cron)) = 5

\* cron.New(cron.WithSeconds()): the parser of the scheduler takes six fields
CronAccepts(cron) == Len(Fields(cron)) = 6

(* ------------------------------ store --------------------------------- *)

\* a TestTask row; exists = FALSE stands for "no row with this id"
NoRow == [exists |-> FALSE, status |-> 0, isScheduled |-> FALSE,
          isDelete |-> FALSE, cron |-> ExprEmpty, name |-> ""]

NewRow(sched, cron) == [exists |-> TRUE, status |-> 0, isScheduled |-> sched,
                        isDelete |-> FALSE, cron |-> cron, name |-> "task"]

\* the cron expression a stored task starts with
InitCron(t) == IF t <= 2 THEN Expr6 ELSE Expr5

\* app_case_testcase: hash "hB" matches no row, the CaseDoc of "hC" is no JSON
TestCases == { [id |-> 1, hash |-> "hA", name |-> "test_a", docOK |-> TRUE],
               [id |-> 2, hash |-> "hC", name |-> "test_c", docOK |-> FALSE] }

\* the bindings a stored task starts with
InitRelevance(t) ==
    IF t = 1 THEN <<"hB", "hA">>
    ELSE IF t = 2 THEN <<"hC">>
    ELSE <<>>

\* app_task_taskcaserelevance: the case hashes bound to a task, in row order
TaskCaseRelevance(t) == relevances[t]

\* an UPDATE without the primary key in its WHERE: every row is overwritten
SaveUnkeyed(tk, t, row) == [u \in DOMAIN tk |-> [row EXCEPT !.exists = TRUE]]

\* gorm Save: UPDATE of every column and, when no row was updated, an insert
Save(tk, t, row) == [tk EXCEPT ![t] = [row EXCEPT !.exists = TRUE]]

(* ---------------------------- registry -------------------------------- *)

\* addScheduledTask: "" when the job is registered, else the error
addScheduledTaskErr(row) ==
    IF row.cron = ExprEmpty THEN "no cron expression"
    ELSE IF ~IsValidCronExpression(row.cron) THEN "invalid cron expression"
    ELSE IF ~CronAccepts(row.cron) THEN "AddFunc failed"
    ELSE ""

addScheduledTask(reg, t, row) ==
    IF addScheduledTaskErr(row) = "" THEN Append(reg, [task |-> t, cron |-> row.cron])
    ELSE reg

RECURSIVE LoadFromAbortOnError(_, _, _)
\* LoadFrom that ends the load at the first task whose registration fails
LoadFromAbortOnError(tk, t, reg) ==
    IF t > NumTasks THEN reg
    ELSE IF tk[t].exists /\ tk[t].isScheduled /\ ~tk[t].isDelete
         THEN IF addScheduledTaskErr(tk[t]) # "" THEN reg
              ELSE LoadFromAbortOnError(tk, t + 1, addScheduledTask(reg, t, tk[t]))
         ELSE LoadFromAbortOnError(tk, t + 1, reg)

RECURSIVE LoadFrom(_, _, _)
LoadFrom(tk, t, reg) ==
    IF t > NumTasks THEN reg
    ELSE IF tk[t].exists /\ tk[t].isScheduled /\ ~tk[t].isDelete
         THEN LoadFrom(tk, t + 1, addScheduledTask(reg, t, tk[t]))
         ELSE LoadFrom(tk, t + 1, reg)

\* loadScheduledTasks on a fresh cron: the jobs registered from the store
loadScheduledTasks(tk) == LoadFrom(tk, 1, <<>>)

(* --------------------------- task service ----------------------------- *)

\* fmt.Sprintf("%d", task.Status)
SprintfD(n) == IF n = 0 THEN "0" ELSE IF n = 1 THEN "1" ELSE "2"

\* GetTaskStatus(taskID) on a row that exists
GetTaskStatus(row) == SprintfD(row.status)

\* updateTaskStatus with a code of its own for "failed"
StatusIntDistinct(status) ==
    IF status = "running" THEN 1
    ELSE IF status = "success" THEN 2
    ELSE IF status = "failed" THEN 3
    ELSE 0

\* updateTaskStatus: the status code stored for a status string
StatusInt(status) ==
    IF status = "running" THEN 1
    ELSE IF status = "success" THEN 2
    ELSE IF status = "failed" THEN 2
    ELSE 0

CountStatus(results, st) == Cardinality({i \in 1..Len(results) : results[i].Status = st})

\* calculateSummary without the test of TotalCases: no results give 0/0
calculateSummaryUnguarded(results) ==
    LET total == Len(results)
        passed == CountStatus(results, "passed")
    IN [TotalCases |-> total,
        PassedCases |-> passed,
        FailedCases |-> CountStatus(results, "failed"),
        SkippedCases |-> CountStatus(results, "skipped"),
        PassRate |-> [num |-> passed * 100, den |-> total]]

\* calculateSummary; PassRate is the exact quotient num/den
calculateSummary(results) ==
    LET total == Len(results)
        passed == CountStatus(results, "passed")
    IN [TotalCases |-> total,
        PassedCases |-> passed,
        FailedCases |-> CountStatus(results, "failed"),
        SkippedCases |-> CountStatus(results, "skipped"),
        PassRate |-> IF total > 0 THEN [num |-> passed * 100, den |-> total]
                     ELSE [num |-> 0, den |-> 1]]

NoSummary == calculateSummary(<<>>)

\* db.Where("case_hash = ?", hash).First: the matching rows
CasesByHash(h) == {c \in TestCases : c.hash = h}

\* executeSingleCase that leaves the status as initialised when runTestCase
\* returns nil
executeSingleCaseNoVerdict(caseID) ==
    LET found == {c \in TestCases : c.id = caseID} IN
    IF found = {}
    THEN [CaseID |-> caseID, CaseName |-> "", Status |-> "failed", ErrorMsg |-> "get case failed"]
    ELSE LET c == CHOOSE x \in found : TRUE IN
         IF ~c.docOK
         THEN [CaseID |-> caseID, CaseName |-> c.name, Status |-> "failed",
               ErrorMsg |-> "parse case data failed"]
         ELSE [CaseID |-> caseID, CaseName |-> c.name, Status |-> "running", ErrorMsg |-> ""]

\* executeSingleCase(caseID): the row is read again, its CaseDoc parsed, then
\* runTestCase, which returns nil
executeSingleCase(caseID) ==
    LET found == {c \in TestCases : c.id = caseID} IN
    IF found = {}
    THEN [CaseID |-> caseID, CaseName |-> "", Status |-> "failed", ErrorMsg |-> "get case failed"]
    ELSE LET c == CHOOSE x \in found : TRUE IN
         IF ~c.docOK
         THEN [CaseID |-> caseID, CaseName |-> c.name, Status |-> "failed",
               ErrorMsg |-> "parse case data failed"]
         ELSE [CaseID |-> caseID, CaseName |-> c.name, Status |-> "passed", ErrorMsg |-> ""]

\* the outcomes a store operation whose error the code tests can have
Outcomes == IF faults < MaxFaults THEN {TRUE, FALSE} ELSE {TRUE}

Charge(ok) == faults' = IF ok THEN faults ELSE faults + 1

(* ------------------------------ batches ------------------------------- *)

\* a batch is one ExecuteTask call; pc names the store operation it does next
Terminal == {"done", "aborted", "failed"}

\* between the Running write and the final status write
InFlightPcs == {"bindings", "case", "final"}

InFlight(b) == b.pc \in InFlightPcs

BatchIds == 1..Len(batches)

\* whether a batch of task t is in flight now
Overlaps(t) == \E b \in BatchIds : batches[b].task = t /\ InFlight(batches[b])

\* the program state of a batch, and what the model remembers about it:
\*   seen, seenStatus  the status its trigger read (string and stored code)
\*   overlap           whether a batch of its task was in flight at that read
\*   trace             the store operations it has done so far
\*   stopped           whether a StopTask took effect while it was in flight
NewBatch(t, origin, seen, seenStatus) ==
    [task |-> t, origin |-> origin, seen |-> seen, seenStatus |-> seenStatus,
     overlap |-> Overlaps(t),
     pc |-> "first", row |-> NoRow, rels |-> <<>>, idx |-> 1, results |-> <<>>,
     status |-> "", summary |-> NoSummary, err |-> "", trace |-> <<>>,
     stopped |-> FALSE, duration |-> 0]

\* the goroutine started by "go func() { ... ExecuteTask(taskID) ... }()"
Dispatch(t, origin, seen, seenStatus) ==
    batches' = Append(batches, NewBatch(t, origin, seen, seenStatus))

(* --------------------------- scheduler -------------------------------- *)

\* executeScheduledTask calling ExecuteTask without "go": the callback holds
\* the loop until the batch it started has returned
executeScheduledTaskBlocking(i) ==
    LET t == entries[i].task
        row == tasks[t] IN
    /\ cronRunning
    /\ Len(batches) < MaxBatches
    /\ \A b \in BatchIds : batches[b].origin = "sched" => batches[b].pc \in Terminal
    /\ IF ~row.exists
       THEN UNCHANGED batches
       ELSE IF GetTaskStatus(row) = "running"
            THEN UNCHANGED batches
            ELSE Dispatch(t, "sched", GetTaskStatus(row), row.status)
    /\ ret' = "none"
    /\ UNCHANGED <<tasks, entries, cronRunning, caseResults, reports, stopCall, faults, relevances, phase, lastCall>>

\* executeScheduledTask(taskID), run by cron for a due entry
executeScheduledTask(i) ==
    LET t == entries[i].task
        row == tasks[t] IN
    /\ cronRunning
    /\ Len(batches) < MaxBatches
    /\ IF ~row.exists
       THEN UNCHANGED batches                       \* GetTaskStatus failed
       ELSE IF GetTaskStatus(row) = "running"
            THEN UNCHANGED batches                  \* logged as skipped
            ELSE Dispatch(t, "sched", GetTaskStatus(row), row.status)
    /\ ret' = "none"
    /\ UNCHANGED <<tasks, entries, cronRunning, caseResults, reports, stopCall, faults, relevances, phase, lastCall>>

OnDue == \E i \in 1..Len(entries) : executeScheduledTask(i)

(* ---------------------------- handlers -------------------------------- *)

\* TaskHandler.RunTask: POST /api/tasks/:id/run
RunTask(t) ==
    /\ Len(batches) < MaxBatches
    /\ tasks[t].exists                              \* else 404, nothing starts
    /\ Dispatch(t, "manual", "", tasks[t].status)
    /\ ret' = "none"
    /\ UNCHANGED <<tasks, entries, cronRunning, caseResults, reports, stopCall, faults, relevances, phase, lastCall>>

\* RemoveTask that reloads into the cron it has, without replacing it
RemoveTaskKeeping(tk, loadOK) ==
    IF loadOK
    THEN /\ entries' = LoadFrom(tk, 1, entries)
         /\ cronRunning' = TRUE
    ELSE /\ entries' = entries
         /\ cronRunning' = FALSE

\* SchedulerService.RemoveTask: a fresh cron, reloaded from the store; when
\* the reload fails the new cron is left empty and not started
RemoveTask(tk, loadOK) ==
    IF loadOK
    THEN /\ entries' = loadScheduledTasks(tk)
         /\ cronRunning' = TRUE
    ELSE /\ entries' = <<>>
         /\ cronRunning' = FALSE

\* TaskHandler.DeleteTask: DELETE /api/tasks/:id
DeleteTask(t) ==
    /\ tasks[t].exists                              \* else 404
    /\ \E deleteOK \in Outcomes :
          IF deleteOK
          THEN /\ tasks' = [tasks EXCEPT ![t] = NoRow]
               /\ \E loadOK \in Outcomes :
                     /\ RemoveTask(tasks', loadOK)
                     /\ Charge(loadOK)
          ELSE /\ Charge(FALSE)
               /\ UNCHANGED <<tasks, entries, cronRunning>>
    /\ ret' = "none"
    /\ UNCHANGED <<batches, caseResults, reports, stopCall, relevances, phase, lastCall>>

(* ---------------------------- ExecuteTask ----------------------------- *)

SetBatch(b, rec) == batches' = [batches EXCEPT ![b] = rec]

\* ExecFirst with the error of db.First dropped: the batch goes on with the
\* zero task
ExecFirstIgnoringError(b) ==
    LET B == batches[b] IN
    /\ B.pc = "first"
    /\ SetBatch(b, [B EXCEPT !.row = tasks[B.task], !.pc = "running"])
    /\ ret' = "none"
    /\ UNCHANGED <<tasks, entries, cronRunning, caseResults, reports, stopCall, faults, relevances, phase, lastCall>>

\* db.First(&task, taskID)
ExecFirst(b) ==
    LET B == batches[b] IN
    /\ B.pc = "first"
    /\ IF tasks[B.task].exists
       THEN SetBatch(b, [B EXCEPT !.row = tasks[B.task], !.pc = "running"])
       ELSE SetBatch(b, [B EXCEPT !.pc = "aborted", !.err = "task not found"])
    /\ ret' = "none"
    /\ UNCHANGED <<tasks, entries, cronRunning, caseResults, reports, stopCall, faults, relevances, phase, lastCall>>

\* ExecSetRunning without "task.Status = 1": the row is saved as it was read
ExecSetRunningUnset(b) ==
    LET B == batches[b]
        row == B.row IN
    /\ B.pc = "running"
    /\ tasks' = Save(tasks, B.task, row)
    /\ SetBatch(b, [B EXCEPT !.row = row, !.status = "running", !.pc = "bindings",
                             !.trace = Append(@, "SaveRunning")])
    /\ ret' = "none"
    /\ UNCHANGED <<entries, cronRunning, caseResults, reports, stopCall, faults, relevances, phase, lastCall>>

\* task.Status = 1; db.Save(&task)
ExecSetRunning(b) ==
    LET B == batches[b]
        row == [B.row EXCEPT !.status = 1] IN
    /\ B.pc = "running"
    /\ tasks' = Save(tasks, B.task, row)
    /\ SetBatch(b, [B EXCEPT !.row = row, !.status = "running", !.pc = "bindings",
                             !.trace = Append(@, "SaveRunning")])
    /\ ret' = "none"
    /\ UNCHANGED <<entries, cronRunning, caseResults, reports, stopCall, faults, relevances, phase, lastCall>>

\* ExecFindRelevances that leaves the loop out: the final status is written
\* with the bindings loaded but not processed
ExecFindRelevancesNoLoop(b) ==
    LET B == batches[b] IN
    /\ B.pc = "bindings"
    /\ SetBatch(b, [B EXCEPT !.rels = TaskCaseRelevance(B.task), !.idx = 1,
                             !.pc = "final",
                             !.trace = Append(@, "FindRelevances")])
    /\ ret' = "none"
    /\ UNCHANGED <<tasks, entries, cronRunning, caseResults, reports, stopCall, faults, relevances, phase, lastCall>>

\* ExecFindRelevances that does not return on the error of Find: the task is
\* marked failed and the batch goes on to its report
ExecFindRelevancesNoReturn(b) ==
    LET B == batches[b] IN
    /\ B.pc = "bindings"
    /\ \E findOK \in Outcomes :
          /\ Charge(findOK)
          /\ IF findOK
             THEN /\ SetBatch(b, [B EXCEPT !.rels = TaskCaseRelevance(B.task), !.idx = 1,
                                           !.pc = IF TaskCaseRelevance(B.task) = <<>>
                                                  THEN "final" ELSE "case",
                                           !.trace = Append(@, "FindRelevances")])
                  /\ UNCHANGED tasks
             ELSE LET row == [B.row EXCEPT !.status = StatusInt("failed")] IN
                  /\ tasks' = Save(tasks, B.task, row)
                  /\ SetBatch(b, [B EXCEPT !.row = row, !.status = "failed",
                                           !.err = "find relevances failed",
                                           !.pc = "report",
                                           !.trace = Append(@, "SaveFinal")])
    /\ ret' = "none"
    /\ UNCHANGED <<entries, cronRunning, caseResults, reports, stopCall, relevances, phase, lastCall>>

\* ExecFindRelevances that returns the error of Find without calling
\* updateTaskStatus
ExecFindRelevancesNoUpdate(b) ==
    LET B == batches[b] IN
    /\ B.pc = "bindings"
    /\ \E findOK \in Outcomes :
          /\ Charge(findOK)
          /\ IF findOK
             THEN SetBatch(b, [B EXCEPT !.rels = TaskCaseRelevance(B.task), !.idx = 1,
                                        !.pc = IF TaskCaseRelevance(B.task) = <<>>
                                               THEN "final" ELSE "case",
                                        !.trace = Append(@, "FindRelevances")])
             ELSE SetBatch(b, [B EXCEPT !.status = "failed",
                                        !.err = "find relevances failed",
                                        !.pc = "failed"])
    /\ ret' = "none"
    /\ UNCHANGED <<tasks, entries, cronRunning, caseResults, reports, stopCall, relevances, phase, lastCall>>

\* db.Where("task_id = ?", taskID).Find(&relevances); on an error the task is
\* marked failed through updateTaskStatus and the error returned
ExecFindRelevances(b) ==
    LET B == batches[b] IN
    /\ B.pc = "bindings"
    /\ \E findOK \in Outcomes :
          /\ Charge(findOK)
          /\ IF findOK
             THEN /\ SetBatch(b, [B EXCEPT !.rels = TaskCaseRelevance(B.task), !.idx = 1,
                                           !.pc = IF TaskCaseRelevance(B.task) = <<>>
                                                  THEN "final" ELSE "case",
                                           !.trace = Append(@, "FindRelevances")])
                  /\ UNCHANGED tasks
             ELSE LET row == [B.row EXCEPT !.status = StatusInt("failed")] IN
                  /\ tasks' = Save(tasks, B.task, row)
                  /\ SetBatch(b, [B EXCEPT !.row = row, !.status = "failed",
                                           !.err = "find relevances failed",
                                           !.pc = "failed",
                                           !.trace = Append(@, "SaveFinal")])
    /\ ret' = "none"
    /\ UNCHANGED <<entries, cronRunning, caseResults, reports, stopCall, relevances, phase, lastCall>>

\* NotFoundResult with the status "skipped"
NotFoundResultSkipped(h) ==
    [CaseID |-> 0, CaseName |-> h, Status |-> "skipped", ErrorMsg |-> "case not found"]

\* the CaseExecutionResult made for a hash that matches no case
NotFoundResult(h) ==
    [CaseID |-> 0, CaseName |-> h, Status |-> "failed", ErrorMsg |-> "case not found"]

\* saveCaseResult: the row created from a case result
CaseResultRow(b, i, r) ==
    [batch |-> b, idx |-> i, CaseID |-> r.CaseID, Name |-> r.CaseName, Report |-> r.Status]

\* ExecCase with "break" in place of "continue": a hash that matches no case
\* ends the loop
ExecCaseBreakOnMissing(b) ==
    LET B == batches[b]
        h == B.rels[B.idx]
        next == IF B.idx = Len(B.rels) THEN "final" ELSE "case" IN
    /\ B.pc = "case"
    /\ IF CasesByHash(h) = {}
       THEN /\ SetBatch(b, [B EXCEPT !.results = Append(@, NotFoundResult(h)),
                                     !.idx = @ + 1, !.pc = "final",
                                     !.trace = Append(@, "Case")])
            /\ UNCHANGED <<caseResults, faults>>
       ELSE LET c == CHOOSE x \in CasesByHash(h) :
                        \A y \in CasesByHash(h) : x.id <= y.id
                r == executeSingleCase(c.id) IN
            \E createOK \in Outcomes :
               /\ Charge(createOK)
               /\ SetBatch(b, [B EXCEPT !.results = Append(@, r),
                                        !.idx = @ + 1, !.pc = next,
                                        !.trace = Append(@, "Case")])
               /\ caseResults' = IF createOK
                                 THEN caseResults \cup {CaseResultRow(b, B.idx, r)}
                                 ELSE caseResults
    /\ ret' = "none"
    /\ UNCHANGED <<tasks, entries, cronRunning, reports, stopCall, relevances, phase, lastCall>>

\* ExecCase that returns when saveCaseResult fails
ExecCaseAbortOnInsertError(b) ==
    LET B == batches[b]
        h == B.rels[B.idx]
        next == IF B.idx = Len(B.rels) THEN "final" ELSE "case" IN
    /\ B.pc = "case"
    /\ IF CasesByHash(h) = {}
       THEN /\ SetBatch(b, [B EXCEPT !.results = Append(@, NotFoundResult(h)),
                                     !.idx = @ + 1, !.pc = next,
                                     !.trace = Append(@, "Case")])
            /\ UNCHANGED <<caseResults, faults>>
       ELSE LET c == CHOOSE x \in CasesByHash(h) :
                        \A y \in CasesByHash(h) : x.id <= y.id
                r == executeSingleCase(c.id) IN
            \E createOK \in Outcomes :
               /\ Charge(createOK)
               /\ IF createOK
                  THEN SetBatch(b, [B EXCEPT !.results = Append(@, r),
                                             !.idx = @ + 1, !.pc = next,
                                             !.trace = Append(@, "Case")])
                  ELSE SetBatch(b, [B EXCEPT !.results = Append(@, r),
                                             !.idx = @ + 1, !.pc = "failed",
                                             !.err = "save case result failed",
                                             !.trace = Append(@, "Case")])
               /\ caseResults' = IF createOK
                                 THEN caseResults \cup {CaseResultRow(b, B.idx, r)}
                                 ELSE caseResults
    /\ ret' = "none"
    /\ UNCHANGED <<tasks, entries, cronRunning, reports, stopCall, relevances, phase, lastCall>>

\* ExecCase that leaves the loop when a case has failed
ExecCaseStopOnFailure(b) ==
    LET B == batches[b]
        h == B.rels[B.idx]
        next == IF B.idx = Len(B.rels) THEN "final" ELSE "case" IN
    /\ B.pc = "case"
    /\ IF CasesByHash(h) = {}
       THEN /\ SetBatch(b, [B EXCEPT !.results = Append(@, NotFoundResult(h)),
                                     !.idx = @ + 1, !.pc = next,
                                     !.trace = Append(@, "Case")])
            /\ UNCHANGED <<caseResults, faults>>
       ELSE LET c == CHOOSE x \in CasesByHash(h) :
                        \A y \in CasesByHash(h) : x.id <= y.id
                r == executeSingleCase(c.id) IN
            \E createOK \in Outcomes :
               /\ Charge(createOK)
               /\ SetBatch(b, [B EXCEPT !.results = Append(@, r),
                                        !.idx = @ + 1,
                                        !.pc = IF r.Status = "failed" THEN "final" ELSE next,
                                        !.trace = Append(@, "Case")])
               /\ caseResults' = IF createOK
                                 THEN caseResults \cup {CaseResultRow(b, B.idx, r)}
                                 ELSE caseResults
    /\ ret' = "none"
    /\ UNCHANGED <<tasks, entries, cronRunning, reports, stopCall, relevances, phase, lastCall>>

\* one round of "for _, relevance := range relevances"
ExecCase(b) ==
    LET B == batches[b]
        h == B.rels[B.idx]
        next == IF B.idx = Len(B.rels) THEN "final" ELSE "case" IN
    /\ B.pc = "case"
    /\ IF CasesByHash(h) = {}
       THEN /\ SetBatch(b, [B EXCEPT !.results = Append(@, NotFoundResult(h)),
                                     !.idx = @ + 1, !.pc = next,
                                     !.trace = Append(@, "Case")])
            /\ UNCHANGED <<caseResults, faults>>
       ELSE LET c == CHOOSE x \in CasesByHash(h) :
                        \A y \in CasesByHash(h) : x.id <= y.id
                r == executeSingleCase(c.id) IN
            \E createOK \in Outcomes :
               /\ Charge(createOK)
               /\ SetBatch(b, [B EXCEPT !.results = Append(@, r),
                                        !.idx = @ + 1, !.pc = next,
                                        !.trace = Append(@, "Case")])
               /\ caseResults' = IF createOK
                                 THEN caseResults \cup {CaseResultRow(b, B.idx, r)}
                                 ELSE caseResults
    /\ ret' = "none"
    /\ UNCHANGED <<tasks, entries, cronRunning, reports, stopCall, relevances, phase, lastCall>>

\* result.Duration = result.EndTime.Sub(result.StartTime), in whole seconds
Durations == 0..MaxDuration

\* ExecFinal that decides the final status from the passed count
ExecFinalPassedOnly(b) ==
    LET B == batches[b]
        summary == calculateSummary(B.results)
        status == IF summary.PassedCases = 0 THEN "failed" ELSE "success"
        row == [B.row EXCEPT !.status = StatusInt(status)] IN
    /\ B.pc = "final"
    /\ tasks' = Save(tasks, B.task, row)
    /\ \E d \in Durations :
          SetBatch(b, [B EXCEPT !.row = row, !.summary = summary, !.status = status,
                                !.duration = d,
                                !.pc = "report", !.trace = Append(@, "SaveFinal")])
    /\ ret' = "none"
    /\ UNCHANGED <<entries, cronRunning, caseResults, reports, stopCall, faults, relevances, phase, lastCall>>

\* calculateSummary, the final status, updateTaskStatus(&task, result.Status, "")
ExecFinal(b) ==
    LET B == batches[b]
        summary == calculateSummary(B.results)
        status == IF summary.FailedCases > 0 THEN "failed" ELSE "success"
        row == [B.row EXCEPT !.status = StatusInt(status)] IN
    /\ B.pc = "final"
    /\ tasks' = Save(tasks, B.task, row)
    /\ \E d \in Durations :
          SetBatch(b, [B EXCEPT !.row = row, !.summary = summary, !.status = status,
                                !.duration = d,
                                !.pc = "report", !.trace = Append(@, "SaveFinal")])
    /\ ret' = "none"
    /\ UNCHANGED <<entries, cronRunning, caseResults, reports, stopCall, faults, relevances, phase, lastCall>>

\* fmt.Sprintf("%.2fs", result.Duration.Seconds()): the number of seconds
\* followed by the letter s; a duration text is a number, or no number at
\* all, and the characters that follow it
FormatRunTime(d) == [num |-> TRUE, val |-> d, suffix |-> <<"s">>]

\* saveTaskReport storing the passed count as the number of tests
TaskReportRowPassedOnly(b, B) ==
    [batch |-> b, TaskID |-> B.task, Passed |-> B.summary.PassedCases,
     Error |-> B.summary.FailedCases, Failure |-> B.summary.FailedCases,
     Skipped |-> B.summary.SkippedCases, Tests |-> B.summary.PassedCases,
     Report |-> B.status, RunTime |-> FormatRunTime(B.duration)]

\* saveTaskReport: the row created from the result
TaskReportRow(b, B) ==
    [batch |-> b, TaskID |-> B.task, Passed |-> B.summary.PassedCases,
     Error |-> B.summary.FailedCases, Failure |-> B.summary.FailedCases,
     Skipped |-> B.summary.SkippedCases, Tests |-> B.summary.TotalCases,
     Report |-> B.status, RunTime |-> FormatRunTime(B.duration)]

ExecReport(b) ==
    LET B == batches[b] IN
    /\ B.pc = "report"
    /\ \E createOK \in Outcomes :
          /\ Charge(createOK)
          /\ reports' = IF createOK THEN reports \cup {TaskReportRow(b, B)} ELSE reports
          /\ SetBatch(b, [B EXCEPT !.pc = "done", !.trace = Append(@, "SaveReport")])
    /\ ret' = "none"
    /\ UNCHANGED <<tasks, entries, cronRunning, caseResults, stopCall, relevances, phase, lastCall>>

ExecuteTask(b) ==
    \/ ExecFirst(b)
    \/ ExecSetRunning(b)
    \/ ExecFindRelevances(b)
    \/ ExecCase(b)
    \/ ExecFinal(b)
    \/ ExecReport(b)

(* ------------------------------ StopTask ------------------------------ *)

NoCall == [pc |-> "idle", task |-> 0, row |-> NoRow]

\* StopFirst without the test of task.Status
StopFirstUnchecked(t) ==
    /\ stopCall.pc = "idle"
    /\ IF ~tasks[t].exists
       THEN /\ ret' = "task not found"
            /\ UNCHANGED stopCall
       ELSE /\ stopCall' = [pc |-> "save", task |-> t, row |-> tasks[t]]
            /\ ret' = "none"
    /\ UNCHANGED <<tasks, entries, cronRunning, batches, caseResults, reports, faults, relevances, phase, lastCall>>

\* db.First(&task, taskID) and the test of task.Status
StopFirst(t) ==
    /\ stopCall.pc = "idle"
    /\ IF ~tasks[t].exists
       THEN /\ ret' = "task not found"
            /\ UNCHANGED stopCall
       ELSE IF tasks[t].status # 1
            THEN /\ ret' = "task is not running"
                 /\ UNCHANGED stopCall
            ELSE /\ stopCall' = [pc |-> "save", task |-> t, row |-> tasks[t]]
                 /\ ret' = "none"
    /\ UNCHANGED <<tasks, entries, cronRunning, batches, caseResults, reports, faults, relevances, phase, lastCall>>

\* the batches of task t that a Stop taking effect now falls into
MarkStopped(t) ==
    [b \in BatchIds |-> IF batches[b].task = t /\ InFlight(batches[b])
                        THEN [batches[b] EXCEPT !.stopped = TRUE]
                        ELSE batches[b]]

\* the batches of task t after a Stop that cancels what is in flight
CancelInFlight(t) ==
    [b \in BatchIds |-> IF batches[b].task = t /\ InFlight(batches[b])
                        THEN [batches[b] EXCEPT !.stopped = TRUE, !.pc = "done"]
                        ELSE batches[b]]

\* StopSave that also interrupts the batches in flight
StopSaveCancelling(t) ==
    /\ stopCall.pc = "save"
    /\ stopCall.task = t
    /\ stopCall' = NoCall
    /\ \E saveOK \in Outcomes :
          /\ Charge(saveOK)
          /\ IF saveOK
             THEN /\ tasks' = Save(tasks, t, [stopCall.row EXCEPT !.status = 2])
                  /\ ret' = "nil"
                  /\ batches' = CancelInFlight(t)
             ELSE /\ ret' = "save failed"
                  /\ UNCHANGED <<tasks, batches>>
    /\ UNCHANGED <<entries, cronRunning, caseResults, reports, relevances, phase, lastCall>>

\* task.Status = 2; db.Save(&task)
StopSave(t) ==
    /\ stopCall.pc = "save"
    /\ stopCall.task = t
    /\ stopCall' = NoCall
    /\ \E saveOK \in Outcomes :
          /\ Charge(saveOK)
          /\ IF saveOK
             THEN /\ tasks' = Save(tasks, t, [stopCall.row EXCEPT !.status = 2])
                  /\ ret' = "nil"
                  /\ batches' = MarkStopped(t)
             ELSE /\ ret' = "save failed"
                  /\ UNCHANGED <<tasks, batches>>
    /\ UNCHANGED <<entries, cronRunning, caseResults, reports, relevances, phase, lastCall>>

StopTask(t) == StopFirst(t) \/ StopSave(t)

(* ----------------------- scheduler service calls ---------------------- *)

\* no statistics returned
NoStats == [called |-> FALSE]

NoService == [op |-> "none", task |-> 0, days |-> 0, stats |-> NoStats]

Called(op, t) == [op |-> op, task |-> t, days |-> 0, stats |-> NoStats]

(* --------------------------- specification ---------------------------- *)

Init ==
    /\ tasks = [t \in TaskIds |-> NewRow(TRUE, InitCron(t))]
    /\ entries = loadScheduledTasks(tasks)
    /\ cronRunning = TRUE
    /\ batches = <<>>
    /\ caseResults = {}
    /\ reports = {}
    /\ relevances = [t \in TaskIds |-> InitRelevance(t)]
    /\ stopCall = NoCall
    /\ phase = "serving"
    /\ faults = 0
    /\ lastCall = NoService
    /\ ret = "none"

Next ==
    \/ OnDue
    \/ \E t \in TaskIds : RunTask(t)
    \/ \E t \in TaskIds : DeleteTask(t)
    \/ \E b \in BatchIds : ExecuteTask(b)
    \/ \E t \in TaskIds : StopTask(t)

Spec == Init /\ [][Next]_vars

\* every goroutine that runs ExecuteTask is scheduled again and again, and the
\* store call it waits for returns
ExecuteTaskFair == \A b \in 1..MaxBatches : WF_vars(b \in BatchIds /\ ExecuteTask(b))

(* ------------------- batches over drawn bindings ---------------------- *)

Hashes == {"hA", "hB", "hC"}

\* the binding lists of at most MaxBindings rows
BindingLists == UNION {[1..n -> Hashes] : n \in 0..MaxBindings}

\* the store as in Init, but with the bindings of task 1 drawn from BindingLists
InitBatch ==
    /\ tasks = [t \in TaskIds |-> NewRow(TRUE, InitCron(t))]
    /\ entries = loadScheduledTasks(tasks)
    /\ cronRunning = TRUE
    /\ batches = <<>>
    /\ caseResults = {}
    /\ reports = {}
    /\ relevances \in {[t \in TaskIds |-> IF t = 1 THEN s ELSE InitRelevance(t)] :
                          s \in BindingLists}
    /\ stopCall = NoCall
    /\ phase = "serving"
    /\ faults = 0
    /\ lastCall = NoService
    /\ ret = "none"

\* batches started through RunTask, running concurrently
NextBatch ==
    \/ \E t \in TaskIds : RunTask(t)
    \/ \E b \in BatchIds : ExecuteTask(b)

SpecBatch == InitBatch /\ [][NextBatch]_vars

\* SpecBatch with the goroutines of the batches scheduled fairly
SpecBatchFair == SpecBatch /\ ExecuteTaskFair

(* ------------------- the registry over drawn tasks -------------------- *)

Crons == {ExprEmpty, Expr4, Expr5, Expr6}

\* the task rows a store can hold for one id
Rows ==
    {NoRow} \cup {[exists |-> TRUE, status |-> 0, isScheduled |-> s, isDelete |-> d,
                   cron |-> c, name |-> "task"] : s \in BOOLEAN, d \in BOOLEAN, c \in Crons}

\* SchedulerService.Start, called once by main through InitGlobalScheduler;
\* main ends the process when it returns an error
Start ==
    /\ phase = "new"
    /\ \E findOK \in Outcomes :
          /\ Charge(findOK)
          /\ IF findOK
             THEN /\ entries' = loadScheduledTasks(tasks)
                  /\ cronRunning' = TRUE
                  /\ phase' = "serving"
                  /\ ret' = "nil"
             ELSE /\ UNCHANGED <<entries, cronRunning>>
                  /\ phase' = "exited"
                  /\ ret' = "load failed"
    /\ lastCall' = Called("Start", 0)
    /\ UNCHANGED <<tasks, batches, caseResults, reports, relevances, stopCall>>

\* SchedulerService.AddTask(taskID)
AddTask(t) ==
    /\ phase = "serving"
    /\ Len(entries) < MaxEntries
    /\ IF ~tasks[t].exists
       THEN ret' = "task not found" /\ UNCHANGED entries
       ELSE IF ~tasks[t].isScheduled
            THEN ret' = "task not scheduled" /\ UNCHANGED entries
            ELSE /\ entries' = addScheduledTask(entries, t, tasks[t])
                 /\ ret' = IF addScheduledTaskErr(tasks[t]) = "" THEN "nil"
                           ELSE addScheduledTaskErr(tasks[t])
    /\ lastCall' = Called("AddTask", t)
    /\ UNCHANGED <<tasks, cronRunning, batches, caseResults, reports, relevances,
                   stopCall, phase, faults>>

\* SchedulerService.RemoveTask(taskID) called on the service; taskID is used
\* for the log line only
RemoveTaskCall(t) ==
    /\ phase = "serving"
    /\ \E loadOK \in Outcomes :
          /\ RemoveTask(tasks, loadOK)
          /\ Charge(loadOK)
          /\ ret' = IF loadOK THEN "nil" ELSE "load failed"
    /\ lastCall' = Called("RemoveTask", t)
    /\ UNCHANGED <<tasks, batches, caseResults, reports, relevances, stopCall, phase>>

\* SchedulerService.UpdateTask(taskID): return s.RemoveTask(taskID)
UpdateTask(t) ==
    /\ phase = "serving"
    /\ \E loadOK \in Outcomes :
          /\ RemoveTask(tasks, loadOK)
          /\ Charge(loadOK)
          /\ ret' = IF loadOK THEN "nil" ELSE "load failed"
    /\ lastCall' = Called("UpdateTask", t)
    /\ UNCHANGED <<tasks, batches, caseResults, reports, relevances, stopCall, phase>>

\* a new scheduler service over a store whose task rows are drawn from Rows
InitRegistry ==
    /\ tasks \in [TaskIds -> Rows]
    /\ entries = <<>>
    /\ cronRunning = FALSE
    /\ batches = <<>>
    /\ caseResults = {}
    /\ reports = {}
    /\ relevances = [t \in TaskIds |-> InitRelevance(t)]
    /\ stopCall = NoCall
    /\ phase = "new"
    /\ faults = 0
    /\ lastCall = NoService
    /\ ret = "none"

NextRegistry ==
    \/ Start
    \/ \E t \in TaskIds : AddTask(t)
    \/ \E t \in TaskIds : RemoveTaskCall(t)
    \/ \E t \in TaskIds : UpdateTask(t)

SpecRegistry == InitRegistry /\ [][NextRegistry]_vars

(* ------------------ validation of drawn expressions ------------------- *)

CronChars == {"*", " "}

\* the cron expressions of at most MaxCronLen characters
CronTexts == UNION {[1..n -> CronChars] : n \in 0..MaxCronLen}

\* a new scheduler service over a store in which the cron expression of
\* task 1 is drawn from CronTexts
InitValidate ==
    /\ tasks \in {[t \in TaskIds |-> IF t = 1 THEN NewRow(TRUE, c)
                                     ELSE NewRow(TRUE, InitCron(t))] : c \in CronTexts}
    /\ entries = <<>>
    /\ cronRunning = FALSE
    /\ batches = <<>>
    /\ caseResults = {}
    /\ reports = {}
    /\ relevances = [t \in TaskIds |-> InitRelevance(t)]
    /\ stopCall = NoCall
    /\ phase = "new"
    /\ faults = 0
    /\ lastCall = NoService
    /\ ret = "none"

NextValidate ==
    \/ Start
    \/ \E t \in TaskIds : AddTask(t)

SpecValidate == InitValidate /\ [][NextValidate]_vars

(* ------------------- batches over an edited store --------------------- *)

\* the UpdateTaskRequest bodies: with a name or without (an empty name leaves
\* the name as it is), and without a status, which binds to the zero value
UpdateTaskRequests == [Name : {"", "renamed"}, Status : {0}]

\* TaskHandler.UpdateTask: PUT /api/tasks/:id
HandlerUpdateTask(t, req) ==
    /\ tasks[t].exists                              \* else 404
    /\ \E saveOK \in Outcomes :
          /\ Charge(saveOK)
          /\ tasks' = IF saveOK
                      THEN Save(tasks, t,
                                [tasks[t] EXCEPT !.name = IF req.Name # "" THEN req.Name ELSE @,
                                                 !.status = req.Status])
                      ELSE tasks
    /\ ret' = "none"
    /\ UNCHANGED <<entries, cronRunning, batches, caseResults, reports, stopCall,
                   relevances, phase, lastCall>>

NextEdit ==
    \/ \E t \in TaskIds : RunTask(t)
    \/ \E b \in BatchIds : ExecuteTask(b)
    \/ \E t \in TaskIds : StopTask(t)
    \/ \E t \in TaskIds, req \in UpdateTaskRequests : HandlerUpdateTask(t, req)

\* the running service with the tasks edited through the HTTP layer
SpecEdit == Init /\ [][NextEdit]_vars

(* ------------------- statistics over drawn reports -------------------- *)

\* the columns of app_task_taskreport, named by gorm from the fields of
\* TaskReport
TaskReportColumns ==
    {"id", "task_id", "name", "report", "passed", "error", "failure", "skipped",
     "tests", "run_time", "create_time"}

\* a query over app_task_taskreport fails when it names a column the table
\* does not have
QueryOK(cols) == cols \subseteq TaskReportColumns

\* the duration texts of the drawn rows
RunTimeTexts ==
    { [num |-> TRUE, val |-> 2, suffix |-> <<>>],          \* "2"
      FormatRunTime(1),                                    \* "1.00s"
      [num |-> TRUE, val |-> 3, suffix |-> <<"m">>],       \* "3m"
      [num |-> FALSE, val |-> 0, suffix |-> <<>>] }        \* "abc"

\* report.RunTime + "s"
AppendS(txt) == [txt EXCEPT !.suffix = Append(@, "s")]

\* the units of time.ParseDuration that the texts can form, in milliseconds
UnitMs(u) ==
    IF u = <<"m", "s">> THEN 1
    ELSE IF u = <<"s">> THEN 1000
    ELSE IF u = <<"m">> THEN 60000
    ELSE IF u = <<"h">> THEN 3600000
    ELSE 0

\* time.ParseDuration: the duration in milliseconds, or an error
ParseDuration(txt) ==
    IF txt.num /\ UnitMs(txt.suffix) # 0
    THEN [ok |-> TRUE, ms |-> txt.val * UnitMs(txt.suffix)]
    ELSE [ok |-> FALSE, ms |-> 0]

RECURSIVE TotalDuration(_)
\* "for _, report := range reports": the parsed durations added up
TotalDuration(rows) ==
    IF rows = {} THEN 0
    ELSE LET r == CHOOSE x \in rows : TRUE
             d == ParseDuration(AppendS(r.RunTime)) IN
         (IF d.ok THEN d.ms ELSE 0) + TotalDuration(rows \ {r})

\* GetTaskStatistics(taskID, days) on day MaxDay; the error of a query is
\* discarded and its result stays zero
GetTaskStatistics(t, days) ==
    LET endTime == MaxDay
        startTime == endTime - days
        window == {r \in reports : r.TaskID = t /\ startTime <= r.CreateTime
                                                /\ r.CreateTime <= endTime}
        totalRuns == IF QueryOK({"task_id", "created_at"})
                     THEN Cardinality(window) ELSE 0
        successRuns == IF QueryOK({"task_id", "status", "created_at"})
                       THEN Cardinality({r \in window : r.status = "success"}) ELSE 0
        failedRuns == IF QueryOK({"task_id", "status", "created_at"})
                      THEN Cardinality({r \in window : r.status = "failed"}) ELSE 0
        found == IF QueryOK({"task_id", "created_at"}) THEN window ELSE {}
    IN [called |-> TRUE,
        total_runs |-> totalRuns,
        success_runs |-> successRuns,
        failed_runs |-> failedRuns,
        success_rate |-> IF totalRuns > 0
                         THEN [num |-> successRuns * 100, den |-> totalRuns]
                         ELSE [num |-> 0, den |-> 1],
        avg_duration |-> IF Cardinality(found) > 0
                         THEN [num |-> TotalDuration(found),
                               den |-> 1000 * Cardinality(found)]
                         ELSE [num |-> 0, den |-> 1],
        period_days |-> days]

\* a call of GetTaskStatistics on the scheduler service
Stats(t, days) ==
    /\ phase = "serving"
    /\ lastCall' = [op |-> "GetTaskStatistics", task |-> t, days |-> days,
                    stats |-> GetTaskStatistics(t, days)]
    /\ ret' = "nil"
    /\ UNCHANGED <<tasks, entries, cronRunning, batches, caseResults, reports,
                   relevances, stopCall, phase, faults>>

\* what a stored TaskReport row holds of what the statistics are about: its
\* task, its creation day, its duration text, and the outcome that
\* saveTaskReport writes into the report text
ReportShapes ==
    [TaskID : TaskIds, CreateTime : 0..MaxDay, RunTime : RunTimeTexts,
     Report : {"success", "failed"}]

\* the stores of at most MaxReports TaskReport rows
ReportStores ==
    UNION {{{[id |-> i, TaskID |-> f[i].TaskID, CreateTime |-> f[i].CreateTime,
              RunTime |-> f[i].RunTime, Report |-> f[i].Report] : i \in 1..n} :
               f \in [1..n -> ReportShapes]} : n \in 0..MaxReports}

\* the running service over a store whose TaskReport rows are drawn
InitStats ==
    /\ tasks = [t \in TaskIds |-> NewRow(TRUE, InitCron(t))]
    /\ entries = loadScheduledTasks(tasks)
    /\ cronRunning = TRUE
    /\ batches = <<>>
    /\ caseResults = {}
    /\ reports \in ReportStores
    /\ relevances = [t \in TaskIds |-> InitRelevance(t)]
    /\ stopCall = NoCall
    /\ phase = "serving"
    /\ faults = 0
    /\ lastCall = NoService
    /\ ret = "none"

NextStats == \E t \in TaskIds, days \in 1..MaxDay : Stats(t, days)

SpecStats == InitStats /\ [][NextStats]_vars

(* ------------------------------ claims -------------------------------- *)

Sched(b) == batches[b].origin = "sched"

Manual(b) == batches[b].origin = "manual"

\* C1: every firing of executeScheduledTask that finds the persisted status
\* Running (code 1) skips: no batch is ever dispatched by the scheduler from a
\* read of status 1.
C1_SkipWhenRunning ==
    \A b \in BatchIds : Sched(b) => batches[b].seenStatus # 1

\* C2: with triggers from the scheduler only, at most one batch of a task is
\* in flight (between its Running write and its final status write).
C2_AtMostOneInFlight ==
    (\A b \in BatchIds : Sched(b)) =>
        \A t \in TaskIds :
            Cardinality({b \in BatchIds : batches[b].task = t /\ InFlight(batches[b])}) <= 1

\* C3: two batches of one task are in flight together only through the gap
\* between the status read and the Running write: the trigger of the later
\* one read the status when no batch of the task was in flight.
C3_OverlapOnlyThroughGap ==
    \A b1, b2 \in BatchIds :
        (b1 < b2 /\ batches[b1].task = batches[b2].task
                 /\ InFlight(batches[b1]) /\ InFlight(batches[b2]))
            => ~batches[b2].overlap

\* C4: RunTask called for a task whose persisted status is Running dispatches
\* no batch.
C4_RunNowSkipsRunning ==
    \A b \in BatchIds : Manual(b) => batches[b].seenStatus # 1

\* C5: executeScheduledTask returns without waiting for the batch it started:
\* while a batch the scheduler dispatched has not returned, every registered
\* job, of the same task or of another, can still fire (below the bound on
\* the batches of one behaviour).
C5_LoopNotBlocked ==
    (/\ \E b \in BatchIds : Sched(b) /\ batches[b].pc \notin Terminal
     /\ cronRunning
     /\ Len(batches) < MaxBatches)
        => \A i \in 1..Len(entries) : ENABLED executeScheduledTask(i)

\* a batch of the scheduler is in flight and a later firing has dispatched a
\* batch of another task
C5_Witness ==
    \E b1, b2 \in BatchIds :
        /\ b1 < b2 /\ Sched(b1) /\ Sched(b2)
        /\ InFlight(batches[b1])
        /\ batches[b1].task # batches[b2].task

Range(seq) == {seq[i] : i \in 1..Len(seq)}

\* what holds of a batch on which a StopTask took effect while it was in flight
StoppedBatchRunsOn(b) ==
    LET B == batches[b] IN
    /\ B.pc \in Terminal =>
          \/ B.pc = "done"
          \/ B.pc = "failed" /\ B.err = "find relevances failed"
    /\ B.pc \in {"report", "done"} =>
          /\ Len(B.results) = Len(TaskCaseRelevance(B.task))
          /\ "SaveFinal" \in Range(B.trace)
    /\ B.pc = "done" => B.trace[Len(B.trace)] = "SaveReport"
    /\ B.pc \notin Terminal => ENABLED ExecuteTask(b)

StopErrors == {"task not found", "task is not running", "save failed"}

Running(t) == tasks[t].exists /\ tasks[t].status = 1

\* C7 as claimed: StopTask on a task that is not Running returns an error and
\* changes no task row; on a Running task it stores status 2 and returns nil.
C7_StopContract ==
    [][\A t \in TaskIds :
          /\ (StopFirst(t) /\ ~Running(t)) => (ret' \in StopErrors /\ tasks' = tasks)
          /\ (StopFirst(t) /\ Running(t)) => (stopCall'.pc = "save" /\ tasks' = tasks)
          /\ StopSave(t) => (ret' = "nil" /\ tasks'[t].status = 2)]_vars

\* C7 amended: StopTask on a task that is not Running returns an error and
\* changes no task row; on a Running task it stores status 2 and returns nil,
\* unless the store write fails: then it returns an error and changes no row.
C7_StopContractAmended ==
    [][\A t \in TaskIds :
          /\ (StopFirst(t) /\ ~Running(t)) => (ret' \in StopErrors /\ tasks' = tasks)
          /\ (StopFirst(t) /\ Running(t)) => (stopCall'.pc = "save" /\ tasks' = tasks)
          /\ StopSave(t) => \/ ret' = "nil" /\ tasks'[t].status = 2
                            \/ ret' = "save failed" /\ tasks' = tasks]_vars

\* a StopTask has just returned nil and the task row holds status 2
C7_Witness ==
    /\ ret = "nil"
    /\ \E t \in TaskIds : tasks[t].exists /\ tasks[t].status = 2

\* C8: a batch whose task has no row aborts as a whole: db.First fails, the
\* call returns an error there, and it has written no task status, no case
\* result and no report, nor does it take another step.
C8_MissingTaskAborts ==
    /\ [][\A b \in BatchIds :
            (ExecFirst(b) /\ ~tasks[batches[b].task].exists)
                => /\ batches'[b].pc = "aborted"
                   /\ batches'[b].err # ""
                   /\ tasks' = tasks
                   /\ caseResults' = caseResults
                   /\ reports' = reports]_vars
    /\ [](\A b \in BatchIds :
            batches[b].pc = "aborted"
                => /\ batches[b].trace = <<>>
                   /\ \A r \in caseResults \cup reports : r.batch # b
                   /\ ~ENABLED ExecuteTask(b))

\* a batch found no row for its task
C8_Witness == \E b \in BatchIds : batches[b].pc = "aborted"

\* the number of tag entries of trace before position i
CountBefore(trace, i, tag) == Cardinality({j \in 1..(i - 1) : trace[j] = tag})

\* C9: in every batch the Running write comes before the bindings are loaded
\* and before any case, the final status write comes after every loaded
\* binding was processed, and the report is written right after the final
\* status.
C9_StepsOrdered ==
    \A b \in BatchIds :
        LET B == batches[b] IN
        \A i \in 1..Len(B.trace) :
            /\ B.trace[i] \in {"FindRelevances", "Case"} =>
                  i > 1 /\ B.trace[1] = "SaveRunning"
            /\ B.trace[i] = "Case" => CountBefore(B.trace, i, "FindRelevances") = 1
            /\ B.trace[i] = "SaveFinal" =>
                  /\ B.trace[1] = "SaveRunning"
                  /\ CountBefore(B.trace, i, "Case") = Len(B.rels)
            /\ B.trace[i] = "SaveReport" => i > 1 /\ B.trace[i - 1] = "SaveFinal"

\* a batch of task 1 has gone through all its steps
C9_Witness ==
    \E b \in BatchIds :
        /\ batches[b].pc = "done"
        /\ batches[b].trace =
              <<"SaveRunning", "FindRelevances", "Case", "Case", "SaveFinal", "SaveReport">>

\* C10: a binding whose hash matches no case adds exactly one failed result
\* with the not-found message at its place in the results, and the loop goes
\* on: there is one result per binding processed, and all are processed
\* before the final status.
C10_MissingCaseDegrades ==
    \A b \in BatchIds :
        LET B == batches[b] IN
        /\ Len(B.results) = B.idx - 1
        /\ B.pc \in {"case", "final", "report", "done"} => B.rels = TaskCaseRelevance(B.task)
        /\ B.pc = "case" => B.idx <= Len(B.rels)
        /\ B.pc \in {"final", "report", "done"} => Len(B.results) = Len(B.rels)
        /\ \A i \in 1..Len(B.results) :
              CasesByHash(B.rels[i]) = {} => B.results[i] = NotFoundResult(B.rels[i])

\* a completed batch whose first binding matched no case and whose second
\* binding was executed and passed
C10_Witness ==
    \E b \in BatchIds :
        /\ batches[b].pc = "done"
        /\ Len(batches[b].results) = 2
        /\ CasesByHash(batches[b].rels[1]) = {}
        /\ batches[b].results[1].ErrorMsg = "case not found"
        /\ batches[b].results[2].Status = "passed"

\* whether a hash matches a case row
Resolves(h) == CasesByHash(h) # {}

\* C11: after a batch has completed, every binding whose hash matched no case
\* has a persisted case-result row (of that batch, for that binding).
C11_NotFoundPersisted ==
    \A b \in BatchIds :
        batches[b].pc = "done" =>
            \A i \in 1..Len(batches[b].rels) :
                ~Resolves(batches[b].rels[i]) =>
                    \E r \in caseResults : r.batch = b /\ r.idx = i

\* the case a hash resolves to: the first matching row
CaseOf(h) == CHOOSE x \in CasesByHash(h) : \A y \in CasesByHash(h) : x.id <= y.id

\* the executor succeeds on the case of h: its data is prepared and run
\* without an error
ExecutorSucceeds(h) == Resolves(h) /\ CaseOf(h).docOK

\* past the final status: the batch has its summary and its final status
Completed(B) == B.pc \in {"report", "done"}

\* C12: every binding whose hash resolves to a case and whose executor
\* succeeds yields a passed result; a batch over the two bindings hA (resolves,
\* succeeds) and hB (does not resolve) has the summary total 2, passed 1,
\* failed 1, passRate 50.
C12_ResolvedPasses ==
    \A b \in BatchIds :
        LET B == batches[b] IN
        /\ \A i \in 1..Len(B.results) :
              ExecutorSucceeds(B.rels[i]) => B.results[i].Status = "passed"
        /\ (Completed(B) /\ B.rels = <<"hA", "hB">>) =>
              /\ B.summary.TotalCases = 2
              /\ B.summary.PassedCases = 1
              /\ B.summary.FailedCases = 1
              /\ B.summary.PassRate.num = 50 * B.summary.PassRate.den

\* a batch over the bindings hA, hB has completed
C12_Witness ==
    \E b \in BatchIds :
        /\ batches[b].pc = "done"
        /\ batches[b].rels = <<"hA", "hB">>
        /\ batches[b].results[1].Status = "passed"
        /\ batches[b].summary.TotalCases = 2

Statuses == {"passed", "failed", "skipped", "running"}

\* the lists of at most MaxBindings case results, by status
ResultLists ==
    UNION {[1..n -> {[CaseID |-> 0, CaseName |-> "", Status |-> st, ErrorMsg |-> ""] :
                        st \in Statuses}] : n \in 0..MaxBindings}

RECURSIVE Tally(_, _)
\* the number of results of rs with status st
Tally(rs, st) ==
    IF rs = <<>> THEN 0
    ELSE (IF Head(rs).Status = st THEN 1 ELSE 0) + Tally(Tail(rs), st)

\* sm is the summary the claim describes for the results rs
SummaryIs(rs, sm) ==
    /\ sm.TotalCases = Len(rs)
    /\ sm.PassedCases = Tally(rs, "passed")
    /\ sm.FailedCases = Tally(rs, "failed")
    /\ sm.SkippedCases = Tally(rs, "skipped")
    /\ sm.PassRate.den # 0
    /\ IF Len(rs) > 0
       THEN sm.PassRate.num * Len(rs) = Tally(rs, "passed") * 100 * sm.PassRate.den
       ELSE sm.PassRate.num = 0

\* C13: for every list of case results the summary has total = number of
\* results, passed/failed/skipped = number of results with that status and
\* passRate = passed/total*100 when total > 0, else 0; the summary of every
\* completed batch is that of its results, and a batch of a task with zero
\* bindings gets total 0 and passRate 0.
C13_SummaryCounts ==
    /\ \A rs \in ResultLists : SummaryIs(rs, calculateSummary(rs))
    /\ \A b \in BatchIds :
          Completed(batches[b]) =>
              /\ SummaryIs(batches[b].results, batches[b].summary)
              /\ batches[b].rels = <<>> =>
                    /\ batches[b].summary.TotalCases = 0
                    /\ batches[b].summary.PassRate.num = 0

\* a batch of a task with zero bindings has completed
C13_Witness ==
    \E b \in BatchIds :
        /\ batches[b].pc = "done"
        /\ "FindRelevances" \in Range(batches[b].trace)
        /\ batches[b].rels = <<>>
        /\ batches[b].summary.TotalCases = 0

\* C14: the final status of a completed batch is "failed" exactly when its
\* results hold a failed one and "success" otherwise; a batch of a task with
\* zero bindings ends with "success".
C14_FinalStatus ==
    \A b \in BatchIds :
        LET B == batches[b] IN
        Completed(B) =>
            /\ B.status \in {"failed", "success"}
            /\ B.status = "failed" <=> Tally(B.results, "failed") > 0
            /\ B.rels = <<>> => B.status = "success"

\* a batch of a task with zero bindings has ended with success and a batch
\* with a failed case has ended with failure
C14_Witness ==
    \E b1, b2 \in BatchIds :
        /\ batches[b1].pc = "done" /\ batches[b1].rels = <<>>
        /\ batches[b1].status = "success"
        /\ batches[b2].pc = "done" /\ batches[b2].summary.FailedCases > 0
        /\ batches[b2].status = "failed"

\* C15: every batch that completes persists one and the same Done code on its
\* task row, whether it ended in success or in failure, and that code is
\* neither the Idle code nor the Running code.
C15_OneDoneCode ==
    [][\A b \in BatchIds :
          ExecFinal(b) =>
              LET row == tasks'[batches[b].task] IN
              /\ row.exists
              /\ batches'[b].status \in {"success", "failed"}
              /\ row.status = StatusInt("success")
              /\ row.status = StatusInt("failed")
              /\ row.status # NewRow(TRUE, ExprEmpty).status
              /\ row.status # StatusInt("running")]_vars

\* a batch has ended in success and a batch of another task in failure, and
\* both task rows hold the same code
C15_Witness ==
    \E b1, b2 \in BatchIds :
        /\ batches[b1].pc = "done" /\ batches[b1].status = "success"
        /\ batches[b2].pc = "done" /\ batches[b2].status = "failed"
        /\ batches[b1].task # batches[b2].task
        /\ tasks[batches[b1].task].status = tasks[batches[b2].task].status

\* the TaskReport rows of task t
ReportsOf(t) == {r \in reports : r.TaskID = t}

\* the batches of task t that have reached their end
DoneBatches(t) == {b \in BatchIds : batches[b].task = t /\ batches[b].pc = "done"}

\* row r carries the aggregate counts of the summary sm
CountsOf(r, sm) ==
    /\ r.Tests = sm.TotalCases
    /\ r.Passed = sm.PassedCases
    /\ r.Failure = sm.FailedCases
    /\ r.Skipped = sm.SkippedCases

\* C16 as claimed: every batch that reaches its end has inserted exactly one
\* TaskReport row with the counts of its summary, so a task has as many
\* TaskReport rows as batches that completed.
C16_OneReportPerBatch ==
    /\ \A t \in TaskIds : Cardinality(ReportsOf(t)) = Cardinality(DoneBatches(t))
    /\ \A r \in reports : CountsOf(r, batches[r.batch].summary)

\* C16 amended: every batch that reaches its end calls saveTaskReport once,
\* which inserts one TaskReport row of its task with the counts of its
\* summary unless the insert fails, then no row is written; nothing else
\* writes a TaskReport, so a task never has more rows than completed batches
\* and each row is that of one completed batch.
C16_OneReportPerBatchAmended ==
    /\ [][/\ \A b \in BatchIds :
               ExecReport(b) =>
                   \/ /\ Cardinality(reports') = Cardinality(reports) + 1
                      /\ \A r \in reports' \ reports :
                            /\ r.batch = b
                            /\ r.TaskID = batches[b].task
                            /\ CountsOf(r, batches[b].summary)
                   \/ /\ reports' = reports
                      /\ faults' = faults + 1
          /\ reports' # reports => \E b \in BatchIds : ExecReport(b)]_vars
    /\ [](/\ \A t \in TaskIds : Cardinality(ReportsOf(t)) <= Cardinality(DoneBatches(t))
          /\ \A r \in reports :
                /\ r.batch \in DoneBatches(r.TaskID)
                /\ CountsOf(r, batches[r.batch].summary)
                /\ \A q \in reports : q.batch = r.batch => q = r)

\* a completed batch over two bindings has its TaskReport row
C16_Witness ==
    \E r \in reports :
        /\ batches[r.batch].pc = "done"
        /\ Len(batches[r.batch].rels) = 2
        /\ r.Tests = 2

\* the case result of binding i of batch b was to be inserted and is not stored
InsertFailed(b, i) ==
    /\ i <= Len(batches[b].results)
    /\ Resolves(batches[b].rels[i])
    /\ \A r \in caseResults : ~(r.batch = b /\ r.idx = i)

\* C17: a failed case-result insert is not retried and stops or undoes
\* nothing: the step that fails keeps the result and changes no task row, the
\* row is not inserted later, the batch goes on through every remaining
\* binding, writes its final status and calls saveTaskReport.
C17_InsertFailureIgnored ==
    /\ [][\A b \in BatchIds :
            /\ (ExecCase(b) /\ Resolves(batches[b].rels[batches[b].idx])
                           /\ caseResults' = caseResults) =>
                   /\ batches'[b].results =
                         Append(batches[b].results,
                                executeSingleCase(CaseOf(batches[b].rels[batches[b].idx]).id))
                   /\ batches'[b].pc \in {"case", "final"}
                   /\ tasks' = tasks
            /\ \A i \in 1..Len(batches[b].results) :
                   InsertFailed(b, i) =>
                       \A r \in caseResults' : ~(r.batch = b /\ r.idx = i)
            /\ (ExecFinal(b) /\ \E i \in 1..Len(batches[b].results) : InsertFailed(b, i)) =>
                   tasks'[batches[b].task].status = StatusInt(batches'[b].status)]_vars
    /\ [](\A b \in BatchIds :
            (\E i \in 1..Len(batches[b].results) : InsertFailed(b, i)) =>
                LET B == batches[b] IN
                /\ B.pc \notin Terminal => ENABLED ExecuteTask(b)
                /\ B.pc \in Terminal => B.pc = "done"
                /\ Completed(B) =>
                      /\ Len(B.results) = Len(B.rels)
                      /\ CountBefore(B.trace, Len(B.trace) + 1, "Case") = Len(B.rels)
                      /\ "SaveFinal" \in Range(B.trace)
                /\ B.pc = "done" => B.trace[Len(B.trace)] = "SaveReport")

\* a batch has completed although the insert of a case result that was not
\* its last one failed
C17_Witness ==
    \E b \in BatchIds :
        /\ batches[b].pc = "done"
        /\ \E i \in 1..Len(batches[b].results) :
              InsertFailed(b, i) /\ i < Len(batches[b].rels)

\* C18: a resolved case that fails (its preparation or its executor reports
\* an error) makes only its own result failed, with the error message; the
\* other bindings are executed all the same, and the results have one entry
\* per binding, in binding order.
C18_CaseFailureIsLocal ==
    \A b \in BatchIds :
        LET B == batches[b] IN
        /\ Len(B.results) <= Len(B.rels)
        /\ Completed(B) => Len(B.results) = Len(B.rels)
        /\ \A i \in 1..Len(B.results) :
              IF Resolves(B.rels[i])
              THEN /\ B.results[i].CaseID = CaseOf(B.rels[i]).id
                   /\ IF CaseOf(B.rels[i]).docOK
                      THEN B.results[i].Status = "passed" /\ B.results[i].ErrorMsg = ""
                      ELSE B.results[i].Status = "failed" /\ B.results[i].ErrorMsg # ""
              ELSE B.results[i].CaseName = B.rels[i]

\* a completed batch whose first case failed in its preparation and whose
\* second case was still executed and passed
C18_Witness ==
    \E b \in BatchIds :
        /\ batches[b].pc = "done"
        /\ Len(batches[b].rels) >= 2
        /\ batches[b].rels[1] = "hC"
        /\ batches[b].results[1].Status = "failed"
        /\ batches[b].results[1].ErrorMsg = "parse case data failed"
        /\ batches[b].results[2].Status = "passed"

\* C19: addScheduledTask returns an error and registers nothing when the
\* trigger of the task is empty or IsValidCronExpression rejects it; for every
\* other trigger, with 5 fields as with 6, it registers a job bound to the
\* task's id.
C19_AddRegistersValid ==
    [][\A t \in TaskIds :
          (AddTask(t) /\ tasks[t].exists /\ tasks[t].isScheduled) =>
              IF tasks[t].cron = ExprEmpty \/ ~IsValidCronExpression(tasks[t].cron)
              THEN ret' # "nil" /\ entries' = entries
              ELSE /\ ret' = "nil"
                   /\ entries' = Append(entries, [task |-> t, cron |-> tasks[t].cron])]_vars

\* the tasks that have a job in the registry
Registered(reg) == {reg[i].task : i \in 1..Len(reg)}

\* what loadScheduledTasks selects: scheduling-enabled and not soft-deleted
Eligible(row) == row.exists /\ row.isScheduled /\ ~row.isDelete

\* C20: loadScheduledTasks registers one job for each task of the store that
\* is scheduling-enabled and not soft-deleted and whose addScheduledTask
\* succeeds, and none for another task; a task whose addScheduledTask fails is
\* skipped, the tasks after it are still registered, and the load returns no
\* error because of it.
C20_LoadAllSkipsFailures ==
    [][(Start /\ faults' = faults) =>
          /\ ret' = "nil"
          /\ cronRunning'
          /\ Registered(entries') =
                {t \in TaskIds : Eligible(tasks[t]) /\ addScheduledTaskErr(tasks[t]) = ""}
          /\ \A i, j \in 1..Len(entries') :
                /\ entries'[i].cron = tasks[entries'[i].task].cron
                /\ entries'[i].task = entries'[j].task => i = j]_vars

\* the scheduler has started without an error over a store in which the
\* registration of task 1 fails and task 2 is registered
C20_Witness ==
    /\ phase = "serving"
    /\ ret = "nil"
    /\ Eligible(tasks[1]) /\ addScheduledTaskErr(tasks[1]) # ""
    /\ Registered(entries) = {2}

\* the number of maximal runs of non-blank characters of s
NumFields(s) ==
    Cardinality({i \in 1..Len(s) : s[i] # " " /\ (i = 1 \/ s[i - 1] = " ")})

\* C21: IsValidCronExpression is true exactly for the empty expression and
\* for the expressions of exactly 5 or 6 whitespace-separated fields; with
\* any other number of fields addScheduledTask rejects the expression as
\* invalid.
C21_ValidateFieldCount ==
    /\ [](\A t \in TaskIds :
            tasks[t].exists =>
                (IsValidCronExpression(tasks[t].cron) <=>
                    (tasks[t].cron = <<>> \/ NumFields(tasks[t].cron) \in {5, 6})))
    /\ [][\A t \in TaskIds :
            (AddTask(t) /\ tasks[t].exists /\ tasks[t].isScheduled
                        /\ tasks[t].cron # <<>>) =>
                (ret' = "invalid cron expression" <=> NumFields(tasks[t].cron) \notin {5, 6})]_vars

\* an expression of seven fields has been rejected as invalid
C21_Witness ==
    /\ ret = "invalid cron expression"
    /\ lastCall.op = "AddTask"
    /\ NumFields(tasks[lastCall.task].cron) = 7

\* the number of jobs registered for task t
Registrations(reg, t) == Cardinality({i \in 1..Len(reg) : reg[i].task = t})

\* C22: RemoveTask(t) followed by AddTask(t), for a task that is
\* scheduling-enabled in the store, leaves exactly one registration of t.
C22_RemoveThenAddOnce ==
    [][\A t \in TaskIds :
          (/\ lastCall = Called("RemoveTask", t)
           /\ ret = "nil"
           /\ AddTask(t)
           /\ ret' = "nil") => Registrations(entries', t) = 1]_vars

\* the registry holds exactly what loadScheduledTasks derives from the store
ReloadedFrom(reg, tk) ==
    /\ Registered(reg) =
          {t \in TaskIds : Eligible(tk[t]) /\ addScheduledTaskErr(tk[t]) = ""}
    /\ \A i, j \in 1..Len(reg) :
          /\ reg[i].cron = tk[reg[i].task].cron
          /\ reg[i].task = reg[j].task => i = j

\* C23: after RemoveTask or UpdateTask has returned without an error the
\* timer loop is running and the registered jobs are exactly those that
\* loadScheduledTasks derives from the store, each with the trigger stored
\* for its task, whatever was registered before; UpdateTask leaves the state
\* that RemoveTask leaves.
C23_RemoveReloads ==
    [][\A t \in TaskIds :
          /\ ((RemoveTaskCall(t) \/ UpdateTask(t)) /\ ret' = "nil") =>
                 /\ cronRunning'
                 /\ ReloadedFrom(entries', tasks')
                 /\ tasks' = tasks
          /\ UpdateTask(t) =>
                 /\ ENABLED RemoveTaskCall(t)
                 /\ entries' = loadScheduledTasks(tasks) \/ entries' = <<>>
                 /\ (ret' = "nil") = cronRunning'
                 /\ (ret' = "nil") = (faults' = faults)]_vars

\* a reload has returned without an error over a store in which the
\* registration of one task fails, and the registry holds the one job left
C23_Witness ==
    /\ lastCall.op \in {"RemoveTask", "UpdateTask"}
    /\ ret = "nil"
    /\ cronRunning
    /\ Len(entries) = 1
    /\ \E t \in TaskIds : Eligible(tasks[t]) /\ addScheduledTaskErr(tasks[t]) # ""

\* C30: after any sequence of AddTask, RemoveTask and UpdateTask calls the
\* registry holds at most one registration per task.
C30_OneRegistrationPerTask ==
    \A t \in TaskIds : Registrations(entries, t) <= 1

\* the TaskReport rows of task t created within the last days days
InWindow(t, days) ==
    {r \in reports : r.TaskID = t /\ MaxDay - days <= r.CreateTime
                                  /\ r.CreateTime <= MaxDay}

StatsReturned == lastCall.op = "GetTaskStatistics"

\* C24: GetTaskStatistics returns total_runs = the number of TaskReport rows
\* of the task created within the window, and success_rate =
\* success_runs / total_runs * 100, or 0 when total_runs is 0.
C24_StatsCountsWindow ==
    StatsReturned =>
        LET st == lastCall.stats
            n == Cardinality(InWindow(lastCall.task, lastCall.days)) IN
        /\ st.total_runs = n
        /\ st.success_rate.den # 0
        /\ IF st.total_runs = 0 THEN st.success_rate.num = 0
           ELSE st.success_rate.num * st.total_runs =
                    st.success_runs * 100 * st.success_rate.den

\* C25: GetTaskStatistics returns success_runs = the number of reports in
\* the window of batches that ended with success, failed_runs = the number
\* of those that ended with failure, and their sum is total_runs.
C25_StatsOutcome ==
    StatsReturned =>
        LET st == lastCall.stats
            rows == InWindow(lastCall.task, lastCall.days) IN
        /\ st.success_runs = Cardinality({r \in rows : r.Report = "success"})
        /\ st.failed_runs = Cardinality({r \in rows : r.Report = "failed"})
        /\ st.success_runs + st.failed_runs = st.total_runs

\* C26: avg_duration is the sum of the durations that parse divided by the
\* number of rows of the window whose duration parses (0 when there is none).
C26_AvgOverParsed ==
    StatsReturned =>
        LET st == lastCall.stats
            parsed == {r \in InWindow(lastCall.task, lastCall.days) :
                          ParseDuration(AppendS(r.RunTime)).ok} IN
        /\ st.avg_duration.den # 0
        /\ IF parsed = {} THEN st.avg_duration.num = 0
           ELSE st.avg_duration.num * 1000 * Cardinality(parsed) =
                    TotalDuration(parsed) * st.avg_duration.den

\* the ids of the cases that the bindings of task t resolve to
BoundCases(t) == {c.id : c \in {x \in TestCases : x.hash \in Range(relevances[t])}}

\* a due entry of task t starts a batch
SchedDispatches(t) ==
    \E i \in 1..Len(entries) :
        /\ entries[i].task = t
        /\ executeScheduledTask(i)
        /\ Len(batches') = Len(batches) + 1

\* what a step of batch b leaves alone and what it may write
FrameOf(b) ==
    LET A == batches[b].task IN
    /\ \A t \in TaskIds \ {A} :
          /\ tasks'[t] = tasks[t]
          /\ {r \in reports' : r.TaskID = t} = ReportsOf(t)
    /\ \A r \in reports' \ reports : r.TaskID = A /\ r.batch = b
    /\ \A r \in caseResults' \ caseResults : r.batch = b /\ r.CaseID \in BoundCases(A)
    /\ caseResults \subseteq caseResults' /\ reports \subseteq reports'
    /\ \A c \in BatchIds \ {b} : batches'[c] = batches[c]

\* C28: batches of different tasks are independent. While a batch of task A
\* is in flight, a due entry and a manual run of another stored task B still
\* start a batch; and a step of a batch of A writes only A's task row, A's
\* reports and case results of A's bindings, and leaves the rows and the
\* reports of every other task, and every other batch, as they were.
C28_BatchesIndependent ==
    /\ [](\A a \in BatchIds, t \in TaskIds :
            (/\ InFlight(batches[a]) /\ batches[a].task # t
             /\ tasks[t].exists /\ Len(batches) < MaxBatches) =>
                /\ ENABLED RunTask(t)
                /\ (cronRunning /\ t \in Registered(entries)) =>
                       ENABLED SchedDispatches(t))
    /\ [][\A b \in BatchIds : ExecuteTask(b) => FrameOf(b)]_vars

\* two batches of different tasks are in flight together, the later one has
\* stored a case result and the earlier one has stored its Running status
C28_Witness ==
    \E a, b \in BatchIds :
        /\ a < b
        /\ batches[a].task # batches[b].task
        /\ InFlight(batches[a]) /\ InFlight(batches[b])
        /\ \E r \in caseResults : r.batch = b

BeforeFinalWrite(b) ==
    b \in BatchIds /\ batches[b].pc \in {"running"} \cup InFlightPcs

\* batch b has just written the Done code on its task row
FinalWritten(b) ==
    /\ b \in BatchIds
    /\ batches[b].pc \in {"report", "failed"}
    /\ batches[b].trace[Len(batches[b].trace)] = "SaveFinal"
    /\ Running(batches[b].task) = FALSE
    /\ tasks[batches[b].task].exists /\ tasks[batches[b].task].status = 2

\* C31: a batch that has found its task row eventually writes a final status,
\* and the task row then has the Done code (2), on the normal path and when
\* loading the bindings fails.
C31_FinalWriteReached ==
    \A b \in 1..MaxBatches : BeforeFinalWrite(b) ~> FinalWritten(b)

\* one batch has ended on a failed load of its bindings and another on the
\* normal path, and both tasks are stored with the Done code
C31_Witness ==
    \E a, b \in BatchIds :
        /\ batches[a].pc = "failed" /\ batches[b].pc = "done"
        /\ tasks[batches[a].task].exists /\ tasks[batches[a].task].status = 2
        /\ tasks[batches[b].task].exists /\ tasks[batches[b].task].status = 2

\* the fields of a task row other than its status
OtherFields(row) == [row EXCEPT !.status = 0]

\* C32: a status write of a batch (Running, final) and the write of StopTask
\* change nothing but the status of the stored task row, so what another
\* actor has stored in the other fields meanwhile is still there afterwards.
C32_StatusWriteOnly ==
    [][/\ \A b \in BatchIds :
            (ExecuteTask(b) /\ tasks[batches[b].task].exists) =>
                OtherFields(tasks'[batches[b].task]) = OtherFields(tasks[batches[b].task])
       /\ \A t \in TaskIds :
            (StopSave(t) /\ tasks[t].exists) =>
                OtherFields(tasks'[t]) = OtherFields(tasks[t])]_vars

\* C33: when RemoveTask or UpdateTask returns, with nil or with the error of
\* the reload, the cron timer loop is running, so that a job AddTask registers
\* afterwards fires.
C33_LoopRunsAfterRemove ==
    [][\A t \in TaskIds : (RemoveTaskCall(t) \/ UpdateTask(t)) => cronRunning']_vars

\* C34: a job is registered, by the load of Start and RemoveTask or by
\* AddTask, only for a task that is stored as scheduling-enabled and not
\* soft-deleted at that time; AddTask on a task that is missing or not
\* scheduling-enabled returns an error and leaves the registry as it was.
C34_RegisteredOnlyEligible ==
    [][/\ \A t \in TaskIds :
            Registrations(entries', t) > Registrations(entries, t) => Eligible(tasks[t])
       /\ \A t \in TaskIds :
            (AddTask(t) /\ ~(tasks[t].exists /\ tasks[t].isScheduled)) =>
                ret' # "nil" /\ entries' = entries]_vars

\* C35: in every stored TaskReport the counts add up:
\* passed + failure + error + skipped = tests.
C35_ReportCountsAddUp ==
    \A r \in reports : r.Passed + r.Failure + r.Error + r.Skipped = r.Tests

\* C36: the duration text of every report written by a batch parses in
\* GetTaskStatistics to the duration of the batch in seconds.
C36_RunTimeRoundTrip ==
    \A r \in reports :
        LET d == ParseDuration(AppendS(r.RunTime)) IN
        d.ok /\ d.ms = 1000 * batches[r.batch].duration

\* the load of the bindings of batch b has failed
LoadFailed(b) == batches[b].err = "find relevances failed"

\* C37: when the load of the bindings fails, the batch runs no case and
\* writes no case result and no TaskReport, the step that fails stores the
\* Done code (2) on the task, and the batch has returned with the error.
C37_LoadFailureEndsBatch ==
    /\ [](\A b \in BatchIds :
            LoadFailed(b) =>
                /\ batches[b].pc = "failed"
                /\ batches[b].results = <<>>
                /\ ~\E r \in caseResults : r.batch = b
                /\ ~\E r \in reports : r.batch = b
                /\ batches[b].trace = <<"SaveRunning", "SaveFinal">>)
    /\ [][\A b \in BatchIds :
            (ExecFindRelevances(b) /\ LoadFailed(b)') =>
                /\ tasks'[batches[b].task].exists
                /\ tasks'[batches[b].task].status = 2
                /\ batches'[b].pc \in Terminal]_vars

\* a batch has returned on the failed load of bindings that are not empty,
\* and its task is stored with the Done code
C37_Witness ==
    \E b \in BatchIds :
        /\ LoadFailed(b) /\ batches[b].pc = "failed"
        /\ TaskCaseRelevance(batches[b].task) # <<>>
        /\ tasks[batches[b].task].exists /\ tasks[batches[b].task].status = 2

\* C38: every case result of a completed batch has the status passed or
\* failed, there is one for each binding, and the summary of the batch has
\* total = passed + failed, skipped = 0 and a pass rate between 0 and 100.
C38_VerdictsOnly ==
    \A b \in BatchIds :
        Completed(batches[b]) =>
            LET B == batches[b]
                S == B.summary IN
            /\ \A i \in 1..Len(B.results) : B.results[i].Status \in {"passed", "failed"}
            /\ Len(B.results) = Len(B.rels)
            /\ S.TotalCases = S.PassedCases + S.FailedCases
            /\ S.SkippedCases = 0
            /\ S.PassRate.den > 0
            /\ 0 <= S.PassRate.num /\ S.PassRate.num <= 100 * S.PassRate.den

\* a completed batch over MaxBindings bindings with passed and failed results
C38_Witness ==
    \E b \in BatchIds :
        /\ Completed(batches[b])
        /\ Len(batches[b].results) = MaxBindings
        /\ \E i, j \in 1..MaxBindings :
              /\ batches[b].results[i].Status = "passed"
              /\ batches[b].results[j].Status = "failed"

====
